---- MODULE Spec2Model ----
(***************************************************************************)
(* Model of QUE_raw_timestamps.py: the cycle extractor                     *)
(* WebRawTimestampsExporter.process_raw_timestamps, the timestamp helpers  *)
(* parse_timestamp and convert_to_raw_timestamp, and the part of           *)
(* export_raw_timestamps that feeds and consumes them.                     *)
(*                                                                         *)
(* Timestamps.  A timestamp value of a record is                           *)
(*   None              a falsy value (Python None or the empty string; the *)
(*                     code only ever tests these with `not x` / `x and`), *)
(*   Bad               a non-empty string that datetime.fromisoformat      *)
(*                     rejects ("N/A"),                                    *)
(*   Iso(d, h, tz)     the string "2024-01-<d>T<h>:00:00<tz>" with tz one  *)
(*                     of "" (no offset), "+08:00" and "Z".                *)
(* Strings are compared as Python compares str (code point by code point), *)
(* datetimes as Python compares datetime (naive against aware raises       *)
(* TypeError).                                                             *)
(***************************************************************************)
EXTENDS Integers, Sequences, FiniteSets, TLC

\* Longest visit list handed to process_raw_timestamps.
MaxLen == 5

----------------------------------------------------------------------------
(* Timestamp strings *)

None == [k |-> "none", d |-> 0, h |-> 0, tz |-> ""]
Bad  == [k |-> "bad",  d |-> 0, h |-> 0, tz |-> ""]
Iso(d, h, tz) == [k |-> "iso", d |-> d, h |-> h, tz |-> tz]
\* The output format of strftime('%Y-%m-%d %H:%M:%S'): "2024-01-<d> <h>:00:00"
\* (d = 0 is the day before 2024-01-01).
Raw(d, h) == [k |-> "raw", d |-> d, h |-> h, tz |-> ""]

\* Python truthiness of a timestamp value (`if x`, `x and ...`).
Truthy(ts) == ts.k # "none"

\* Order of the suffixes as strings: "" is a proper prefix of the others and
\* '+' (0x2B) sorts before 'Z' (0x5A).
TzRank(tz) == CASE tz = "" -> 0 [] tz = "+08:00" -> 1 [] tz = "Z" -> 2

\* a > b on two non-empty str values.  Every Iso string starts with '2' and
\* "N/A" with 'N', so Bad is greater than every Iso string.
StrGreater(a, b) ==
    IF a.k = "bad" \/ b.k = "bad"
    THEN a.k = "bad" /\ b.k # "bad"
    ELSE \/ a.d > b.d
         \/ a.d = b.d /\ a.h > b.h
         \/ a.d = b.d /\ a.h = b.h /\ TzRank(a.tz) > TzRank(b.tz)

----------------------------------------------------------------------------
(* datetime values: naive or aware, t = hours (UTC hours when aware) *)

TaiwanOffset == 8
DisplayOffset == 4

\* A datetime: wall-clock hours since 2024-01-00T00, and for an aware one
\* its UTC offset in hours.
datetime_min == [aware |-> FALSE, wall |-> 0, off |-> 0]

UtcOffset(tz) == IF tz = "+08:00" THEN TaiwanOffset ELSE 0

\* datetime.fromisoformat(ts.replace('Z', '+00:00')) for an Iso string.
fromisoformat(ts) ==
    [aware |-> ts.tz # "", wall |-> ts.d * 24 + ts.h, off |-> UtcOffset(ts.tz)]

parse_timestamp(ts_str) ==
    IF ~Truthy(ts_str) THEN datetime_min
    ELSE IF ts_str.k = "iso" THEN fromisoformat(ts_str)
    ELSE datetime_min

\* Comparing an offset-naive with an offset-aware datetime raises TypeError;
\* two aware datetimes compare by their UTC instants.
CompareRaises(a, b) == a.aware # b.aware
Instant(dt) == dt.wall - dt.off
DtLess(a, b) == Instant(a) < Instant(b)

\* dt.replace(tzinfo=None), dt + timedelta(hours=n), dt.strftime(...)
replace_tzinfo_none(dt) == [aware |-> FALSE, wall |-> dt.wall, off |-> 0]
plus_hours(dt, n) == [dt EXCEPT !.wall = dt.wall + n]
strftime(dt) == Raw(dt.wall \div 24, dt.wall % 24)

convert_to_raw_timestamp(iso_timestamp) ==
    IF ~Truthy(iso_timestamp) THEN None
    ELSE IF iso_timestamp.k = "iso"
    THEN LET dt == fromisoformat(iso_timestamp)
             utc_dt == plus_hours(replace_tzinfo_none(dt), 0 - TaiwanOffset)
             adjusted_dt == plus_hours(utc_dt, DisplayOffset)
         IN  strftime(adjusted_dt)
    ELSE iso_timestamp

----------------------------------------------------------------------------
(* sorted(): Python's stable ascending sort, by a datetime key or by a str *)

\* keys[i] is the sort key of s[i].  Position of every element: after the
\* elements with a smaller key and after the earlier elements with an equal
\* key.
sorted_by_time(s, keys) ==
    LET before(i) == { j \in 1..Len(s) :
                         \/ DtLess(keys[j], keys[i])
                         \/ Instant(keys[j]) = Instant(keys[i]) /\ j < i }
    IN  [p \in 1..Len(s) |->
            s[CHOOSE i \in 1..Len(s) : Cardinality(before(i)) = p - 1]]

\* The sort compares its keys pairwise; a list that mixes naive and aware
\* keys makes one of these comparisons raise TypeError.
sort_raises(keys) ==
    \E i, j \in 1..Len(keys) : CompareRaises(keys[i], keys[j])

\* candidates.sort(key=lambda x: x[1]): stable sort by the start string.
sort_candidates(c) ==
    LET before(i) == { j \in 1..Len(c) :
                         \/ StrGreater(c[i].start, c[j].start)
                         \/ c[j].start = c[i].start /\ j < i }
    IN  [p \in 1..Len(c) |->
            c[CHOOSE i \in 1..Len(c) : Cardinality(before(i)) = p - 1]]

----------------------------------------------------------------------------
(* process_raw_timestamps *)

NoStation == "None"

empty_result(serial_number) ==
    [st |-> "ok", serial_number |-> serial_number,
     vi1_end |-> None, vi1_next_station |-> NoStation, vi1_next_start |-> None,
     upgrade_end |-> None,
     bbd_assy_station |-> NoStation, bbd_assy_start |-> None,
     bbd_assy_end |-> None,
     fla_chiflash_station |-> NoStation, fla_chiflash_start |-> None,
     packing_end |-> None, shipping_start |-> None]

\* The call ended with an exception instead of a result.
Raised == [st |-> "raised"]

start_key(record) == parse_timestamp(record.history_station_start_time)
end_key(visit) == parse_timestamp(visit.end)
start_keys(records) == [i \in 1..Len(records) |-> start_key(records[i])]
end_keys(visits) == [i \in 1..Len(visits) |-> end_key(visits[i])]

workstation_data(history_data) ==
    SelectSeq(history_data,
              LAMBDA record : record.source = "workstation"
                              /\ record.workstation_name # "")

receive_records(data) ==
    SelectSeq(data, LAMBDA record : record.workstation_name = "RECEIVE")

most_recent_receive_time(data) ==
    LET sorted_receives == sorted_by_time(receive_records(data),
                                          start_keys(receive_records(data)))
    IN  start_key(sorted_receives[Len(sorted_receives)])

\* in_cycle without the comparison with the RECEIVE time.
in_cycle_unfiltered(record, receive_time) == TRUE

in_cycle(record, receive_time) == ~DtLess(start_key(record), receive_time)

\* The working set: the records of the current cycle.
cycle_data(data) ==
    IF receive_records(data) # <<>>
    THEN SelectSeq(data,
                   LAMBDA record : in_cycle(record, most_recent_receive_time(data)))
    ELSE data

cycle_raises(data) ==
    /\ receive_records(data) # <<>>
    /\ \/ sort_raises(start_keys(receive_records(data)))
       \/ \E i \in 1..Len(data) :
            CompareRaises(start_key(data[i]), most_recent_receive_time(data))

\* stations[name]: the {start, end} pairs of one station, in record order
\* (the empty sequence when the name is no key of the dictionary).
station_visits(data, name) ==
    LET recs == SelectSeq(data, LAMBDA record : record.workstation_name = name)
    IN  [i \in 1..Len(recs) |->
            [start |-> recs[i].history_station_start_time,
             end   |-> recs[i].history_station_end_time]]

\* most_recent_visit without the sort: the visit listed last.
most_recent_visit_unsorted(visits) == visits[Len(visits)]

\* sorted(visits, key=end)[-1]
most_recent_visit(visits) ==
    sorted_by_time(visits, end_keys(visits))[Len(visits)]

\* is_after with >= in place of >.
is_after_or_equal(start, prev) ==
    Truthy(start) /\ Truthy(prev) /\ ~StrGreater(prev, start)

\* is_after without the test of the start.
is_after_unguarded(start, prev) ==
    Truthy(prev) /\ (~Truthy(start) \/ StrGreater(start, prev))

is_after(start, prev) ==
    Truthy(start) /\ Truthy(prev) /\ StrGreater(start, prev)

\* for v in stations[name]: if v.start and prev and v.start > prev:
\*     candidates.append(...); break
first_after(data, name, prev) ==
    LET hits == SelectSeq(station_visits(data, name),
                          LAMBDA v : is_after(v.start, prev))
    IN  IF hits = <<>> THEN <<>>
        ELSE << [station |-> name, start |-> hits[1].start,
                 end |-> hits[1].end] >>

RECURSIVE collect_candidates(_, _, _)
collect_candidates(data, names, prev) ==
    IF names = <<>> THEN <<>>
    ELSE first_after(data, Head(names), prev)
         \o collect_candidates(data, Tail(names), prev)

Step2Stations == << "Disassembly", "UPGRADE" >>
Step4Stations == << "BBD", "ASSY1", "Assembley" >>
Step5Stations == << "FLA", "CHIFLASH" >>

\* pick_first with a sort that is not stable: of the candidates with the
\* smallest start the one enumerated last.
pick_first_unstable(candidates) ==
    LET sorted_c == sort_candidates(candidates)
        ties == SelectSeq(sorted_c, LAMBDA c : c.start = sorted_c[1].start)
    IN  ties[Len(ties)]

\* candidates.sort(...); candidates[0]
pick_first(candidates) == sort_candidates(candidates)[1]

\* find_matching_upgrade that keeps the last visit with the start instead of
\* breaking at the first.
find_matching_upgrade_last(data, next_station_start) ==
    LET hits == SelectSeq(station_visits(data, "UPGRADE"),
                          LAMBDA v : v.start = next_station_start)
    IN  IF hits = <<>> THEN <<>> ELSE << hits[Len(hits)] >>

\* for upgrade_time in stations['UPGRADE']:
\*     if upgrade_time['start'] == next_station_start: ...; break
\* The matching visit, or the empty sequence for matching_upgrade = None.
find_matching_upgrade(data, next_station_start) ==
    LET hits == SelectSeq(station_visits(data, "UPGRADE"),
                          LAMBDA v : v.start = next_station_start)
    IN  IF hits = <<>> THEN <<>> ELSE << hits[1] >>

\* continues_cycle for any next station.
continues_cycle_any(next_station_name) == next_station_name # NoStation

\* if next_station_name == 'UPGRADE'
continues_cycle(next_station_name) == next_station_name = "UPGRADE"

process_raw_timestamps(serial_number, history_data) ==
    IF history_data = <<>> THEN empty_result(serial_number)
    ELSE IF workstation_data(history_data) = <<>>
    THEN empty_result(serial_number)
    ELSE
    LET all  == workstation_data(history_data)
        data == cycle_data(all)
        \* 1. VI1 end time and next station start time
        vi1 == station_visits(data, "VI1")
        has_vi1 == vi1 # <<>>
        vi1_end == most_recent_visit(vi1).end
        c2 == collect_candidates(data, Step2Stations, vi1_end)
        has_next == has_vi1 /\ c2 # <<>>
        next_station_name == IF has_next THEN pick_first(c2).station
                             ELSE NoStation
        next_station_start == IF has_next THEN pick_first(c2).start ELSE None
        \* 2. the UPGRADE visit that matches the start time found
        matches == find_matching_upgrade(data, next_station_start)
        has_match == /\ has_vi1
                     /\ continues_cycle(next_station_name)
                     /\ matches # <<>>
        matching_upgrade == matches[1]
        c4 == collect_candidates(data, Step4Stations, matching_upgrade.end)
        has_bbd == has_match /\ c4 # <<>>
        bbd_assy_station == IF has_bbd THEN pick_first(c4).station
                            ELSE NoStation
        bbd_assy_start == IF has_bbd THEN pick_first(c4).start ELSE None
        bbd_assy_end == IF has_bbd THEN pick_first(c4).end ELSE None
        \* 3. FLA/CHIFLASH start time
        c5 == collect_candidates(data, Step5Stations, bbd_assy_end)
        has_fla == /\ bbd_assy_station # NoStation
                   /\ Truthy(bbd_assy_end)
                   /\ c5 # <<>>
        \* 4. Packing end time and Shipping start time
        packing == station_visits(data, "PACKING")
        has_packing == packing # <<>>
        packing_end == most_recent_visit(packing).end
        shipping == first_after(data, "SHIPPING", packing_end)
        has_shipping == has_packing /\ shipping # <<>>
    IN  IF \/ cycle_raises(all)
           \/ has_vi1 /\ sort_raises(end_keys(vi1))
           \/ has_packing /\ sort_raises(end_keys(packing))
        THEN Raised
        ELSE [st |-> "ok", serial_number |-> serial_number,
              vi1_end |-> IF has_vi1 THEN vi1_end ELSE None,
              vi1_next_station |-> next_station_name,
              vi1_next_start |-> next_station_start,
              upgrade_end |-> IF has_match THEN matching_upgrade.end ELSE None,
              bbd_assy_station |-> bbd_assy_station,
              bbd_assy_start |-> bbd_assy_start,
              bbd_assy_end |-> bbd_assy_end,
              fla_chiflash_station |-> IF has_fla THEN pick_first(c5).station
                                       ELSE NoStation,
              fla_chiflash_start |-> IF has_fla THEN pick_first(c5).start
                                     ELSE None,
              packing_end |-> IF has_packing THEN packing_end ELSE None,
              shipping_start |-> IF has_shipping THEN shipping[1].start
                                 ELSE None]

\* One CSV row of export_raw_timestamps.
TimeFields == { "vi1_end", "vi1_next_start", "upgrade_end", "bbd_assy_start",
                "bbd_assy_end", "fla_chiflash_start", "packing_end",
                "shipping_start" }
StationFields == { "vi1_next_station", "bbd_assy_station",
                   "fla_chiflash_station" }

csv_row(res) ==
    [f \in TimeFields \cup StationFields \cup {"serial_number"} |->
        IF f \in TimeFields
        THEN IF Truthy(res[f]) THEN convert_to_raw_timestamp(res[f]) ELSE None
        ELSE IF f \in StationFields
        THEN IF res[f] # NoStation THEN res[f] ELSE ""
        ELSE res[f]]

----------------------------------------------------------------------------
(* The records the serial-history API returns for a serial number *)

Rec(name, start, end) ==
    [source |-> "workstation", workstation_name |-> name,
     history_station_start_time |-> start, history_station_end_time |-> end]

N(h) == Iso(1, h, "")
Z(h) == Iso(1, h, "Z")
P(h) == Iso(1, h, "+08:00")

\* Two cycles: visits before, between and after two RECEIVE visits.
FeedCycle ==
    { Rec("RECEIVE", N(2), N(2)), Rec("RECEIVE", N(5), N(5)),
      Rec("RECEIVE", None, None), Rec("VI1", N(3), N(4)),
      Rec("VI1", N(6), N(7)) }

\* A chain of visits that started before the RECEIVE visit.
FeedOldChain ==
    { Rec("RECEIVE", N(5), N(5)), Rec("VI1", N(6), N(1)),
      Rec("UPGRADE", N(2), N(2)), Rec("BBD", N(3), N(3)),
      Rec("PACKING", N(1), N(8)) }

\* Records that are no workstation visits, missing timestamps next to
\* timestamps that carry an offset.
FeedMixed ==
    { [source |-> "other", workstation_name |-> "VI1",
       history_station_start_time |-> N(1), history_station_end_time |-> N(2)],
      [source |-> "workstation", workstation_name |-> "",
       history_station_start_time |-> N(1), history_station_end_time |-> N(2)],
      Rec("RECEIVE", None, None), Rec("RECEIVE", Z(3), Z(3)),
      Rec("VI1", Z(4), Z(5)) }

\* Missing, malformed and well-formed end times.
FeedEnds ==
    { Rec("VI1", N(1), Bad), Rec("VI1", N(1), None), Rec("VI1", N(1), N(2)),
      Rec("PACKING", N(1), None), Rec("PACKING", N(1), Bad) }

\* End times in two time zones: 09:00+08:00 is earlier than 02:00Z.
FeedZones ==
    { Rec("VI1", Z(1), P(9)), Rec("VI1", Z(1), Z(2)),
      Rec("PACKING", Z(1), Z(5)), Rec("SHIPPING", Z(3), Z(3)),
      Rec("SHIPPING", Z(6), Z(6)) }

FeedStep2 ==
    { Rec("VI1", N(0), N(1)), Rec("Disassembly", N(2), N(2)),
      Rec("Disassembly", None, N(2)), Rec("UPGRADE", N(2), N(3)),
      Rec("UPGRADE", N(4), None), Rec("UPGRADE", N(2), N(5)) }

FeedStep4 ==
    { Rec("VI1", N(0), N(1)), Rec("UPGRADE", N(2), N(3)),
      Rec("BBD", N(5), None), Rec("ASSY1", N(4), N(6)),
      Rec("Assembley", N(4), N(5)) }

FeedStep5 ==
    { Rec("VI1", N(0), N(1)), Rec("UPGRADE", N(2), N(3)),
      Rec("BBD", N(4), N(5)), Rec("FLA", N(6), None),
      Rec("CHIFLASH", N(6), N(7)), Rec("FLA", N(7), N(8)) }

FeedShip ==
    { Rec("PACKING", N(1), N(2)), Rec("PACKING", N(1), N(3)),
      Rec("SHIPPING", N(3), N(3)), Rec("SHIPPING", N(4), None),
      Rec("SHIPPING", N(5), N(6)) }

\* The batch of serial numbers, and the records the API has for each.
serial_numbers ==
    { "SN1", "SN2", "SN3", "SN4", "SN5", "SN6", "SN7", "SN8", "SN9" }

api_history(serial_number) ==
    CASE serial_number = "SN1" -> FeedCycle
      [] serial_number = "SN2" -> FeedOldChain
      [] serial_number = "SN3" -> FeedMixed
      [] serial_number = "SN4" -> FeedEnds
      [] serial_number = "SN5" -> FeedZones
      [] serial_number = "SN6" -> FeedStep2
      [] serial_number = "SN7" -> FeedStep4
      [] serial_number = "SN8" -> FeedStep5
      [] serial_number = "SN9" -> FeedShip

----------------------------------------------------------------------------
(* export_raw_timestamps for one serial number of the batch *)

VARIABLES sn, history_data, result, row
vars == << sn, history_data, result, row >>

NoResult == [st |-> "none"]
NoRow == [serial_number |-> ""]

Init ==
    /\ sn \in serial_numbers
    /\ history_data = <<>>
    /\ result = NoResult
    /\ row = NoRow

\* history_by_sn[sn].append(record)
AppendRecord ==
    /\ result = NoResult
    /\ Len(history_data) < MaxLen
    /\ \E record \in api_history(sn) : history_data' = Append(history_data, record)
    /\ UNCHANGED << sn, result, row >>

\* result = self.process_raw_timestamps(sn, history_data)
Process ==
    /\ result = NoResult
    /\ result' = process_raw_timestamps(sn, history_data)
    /\ UNCHANGED << sn, history_data, row >>

\* writer.writerow([...]) for the result
WriteRow ==
    /\ result.st = "ok"
    /\ row = NoRow
    /\ row' = csv_row(result)
    /\ UNCHANGED << sn, history_data, result >>

Next == AppendRecord \/ Process \/ WriteRow

Spec == Init /\ [][Next]_vars

----------------------------------------------------------------------------
(* Vocabulary of the properties: the visits of history_data by index *)

Ok == result.st = "ok"

StationOf(i) == history_data[i].workstation_name
StartOf(i) == history_data[i].history_station_start_time
EndOf(i) == history_data[i].history_station_end_time
Parseable(ts) == ts.k = "iso"
ParsedStart(i) == Instant(parse_timestamp(StartOf(i)))
ParsedEnd(i) == Instant(parse_timestamp(EndOf(i)))

\* The qualifying visits: workstation records with a station name.
Visits ==
    { i \in 1..Len(history_data) :
        /\ history_data[i].source = "workstation"
        /\ StationOf(i) # "" }

Receives == { i \in Visits : StationOf(i) = "RECEIVE" }

\* The visit starts at or after the RECEIVE visit with the latest start.
InCurrentCycle(i) == \A r \in Receives : ParsedStart(i) >= ParsedStart(r)

\* The visits of the working set at one of the stations names.
At(names) ==
    { i \in 1..Len(history_data) :
        /\ StationOf(i) \in names
        /\ history_data[i].source = "workstation"
        /\ InCurrentCycle(i) }

SetMin(S) == CHOOSE x \in S : \A y \in S : x <= y

\* The stations and the attribute a milestone field is read from.
FieldStations(f) ==
    CASE f \in {"vi1_end"} -> {"VI1"}
      [] f \in {"vi1_next_start"} -> {"Disassembly", "UPGRADE"}
      [] f \in {"upgrade_end"} -> {"UPGRADE"}
      [] f \in {"bbd_assy_start", "bbd_assy_end"} -> {"BBD", "ASSY1", "Assembley"}
      [] f \in {"fla_chiflash_start"} -> {"FLA", "CHIFLASH"}
      [] f \in {"packing_end"} -> {"PACKING"}
      [] f \in {"shipping_start"} -> {"SHIPPING"}

FieldValue(f, i) ==
    IF f \in {"vi1_end", "upgrade_end", "bbd_assy_end", "packing_end"}
    THEN EndOf(i) ELSE StartOf(i)

----------------------------------------------------------------------------
\* C1  Cycle isolation: when some RECEIVE visit has a parseable start, every
\* populated milestone field of a result is the value of a visit of the
\* field's station whose parsed start is >= the latest parsed RECEIVE start;
\* when every VI1 visit started before that RECEIVE, vi1_end is null.
CycleIsolation ==
    (Ok /\ \E r \in Receives : Parseable(StartOf(r))) =>
        /\ \A f \in TimeFields :
             Truthy(result[f]) =>
                \E i \in Visits : /\ StationOf(i) \in FieldStations(f)
                                  /\ InCurrentCycle(i)
                                  /\ FieldValue(f, i) = result[f]
        /\ (\A i \in Visits : StationOf(i) = "VI1" => ~InCurrentCycle(i))
              => result.vi1_end = None

\* A VI1 visit between two RECEIVE visits and one after the later RECEIVE:
\* the later one supplied vi1_end.
CycleIsolationWitness ==
    /\ Ok
    /\ \E r1, r2 \in Receives, old, new \in Visits :
         /\ Parseable(StartOf(r1)) /\ Parseable(StartOf(r2))
         /\ StationOf(old) = "VI1" /\ StationOf(new) = "VI1"
         /\ ParsedStart(r1) < ParsedStart(old)
         /\ ParsedStart(old) < ParsedStart(r2)
         /\ ParsedStart(r2) <= ParsedStart(new)
         /\ old > new
         /\ Truthy(EndOf(old))
         /\ result.vi1_end = EndOf(new)
         /\ result.vi1_end # EndOf(old)

\* C2  process_raw_timestamps never raises: every call returns a result.
NeverRaises == result.st # "raised"

\* C3  Milestone dependency chain of a result.
DependencyChain ==
    Ok =>
        /\ result.fla_chiflash_station # NoStation => Truthy(result.bbd_assy_end)
        /\ result.bbd_assy_station # NoStation => Truthy(result.upgrade_end)
        /\ Truthy(result.upgrade_end) => result.vi1_next_station = "UPGRADE"
        /\ result.vi1_next_station # NoStation => Truthy(result.vi1_end)
        /\ Truthy(result.shipping_start) => Truthy(result.packing_end)
        /\ result.vi1_next_station \in {"Disassembly", NoStation} =>
              /\ result.upgrade_end = None
              /\ result.bbd_assy_station = NoStation
              /\ result.bbd_assy_start = None
              /\ result.bbd_assy_end = None
              /\ result.fla_chiflash_station = NoStation
              /\ result.fla_chiflash_start = None

\* The whole chain is populated, next to a populated packing chain.
DependencyChainWitness ==
    /\ Ok
    /\ result.fla_chiflash_station # NoStation
    /\ Truthy(result.fla_chiflash_start)
    /\ result.vi1_next_station = "UPGRADE"

\* Disassembly follows VI1 although an UPGRADE visit with the same start
\* exists: nothing downstream is populated.
DependencyChainHalted ==
    /\ Ok
    /\ result.vi1_next_station = "Disassembly"
    /\ \E i \in At({"UPGRADE"}) :
         StartOf(i) = result.vi1_next_start /\ Truthy(EndOf(i))

----------------------------------------------------------------------------
(* Candidates of a step, read off history_data *)

\* The visits of one station that come strictly after prev.
After(name, prev) ==
    { i \in At({name}) :
        Truthy(StartOf(i)) /\ Truthy(prev) /\ StrGreater(StartOf(i), prev) }

\* A station's candidate: its first such visit in list order (0: none).
Candidate(name, prev) ==
    IF After(name, prev) = {} THEN 0 ELSE SetMin(After(name, prev))

HasCandidate(names, prev) ==
    \E k \in 1..Len(names) : Candidate(names[k], prev) # 0

\* The winner: smallest start string, on equal starts the station enumerated
\* first.  The position in names of the winning station.
Winner(names, prev) ==
    LET cand == [k \in 1..Len(names) |-> Candidate(names[k], prev)]
    IN  CHOOSE k \in 1..Len(names) :
            /\ cand[k] # 0
            /\ \A m \in 1..Len(names) :
                 (m # k /\ cand[m] # 0) =>
                    \/ StrGreater(StartOf(cand[m]), StartOf(cand[k]))
                    \/ StartOf(cand[m]) = StartOf(cand[k]) /\ k < m

WinnerVisit(names, prev) == Candidate(names[Winner(names, prev)], prev)

CandidateChoiceSmallest ==
    /\ Ok
    /\ result.bbd_assy_station # NoStation
    /\ result.bbd_assy_station # "BBD"
    /\ Candidate("BBD", result.upgrade_end) # 0

\* Field f is the end of a visit to the station with the greatest parsed end,
\* and null when the working set has no visit to the station.
MostRecentEnd(name, f) ==
    /\ At({name}) = {} => result[f] = None
    /\ At({name}) # {} =>
          \E i \in At({name}) :
              /\ result[f] = EndOf(i)
              /\ \A j \in At({name}) : ParsedEnd(i) >= ParsedEnd(j)

\* C5 as claimed: vi1_end / packing_end is the end of a visit with the
\* greatest parsed end, and is null only when the station has no visit in the
\* working set or every such visit has a missing end.
MostRecentEndNullOnlyIfMissing ==
    Ok => \A p \in { <<"VI1", "vi1_end">>, <<"PACKING", "packing_end">> } :
            /\ MostRecentEnd(p[1], p[2])
            /\ result[p[2]] = None =>
                  \A i \in At({p[1]}) : EndOf(i) = None

\* C5 as amended: ... null only when the station has no visit in the working
\* set or every such visit's end is missing or unparseable.
MostRecentEndAmended ==
    Ok => \A p \in { <<"VI1", "vi1_end">>, <<"PACKING", "packing_end">> } :
            /\ MostRecentEnd(p[1], p[2])
            /\ result[p[2]] = None =>
                  \A i \in At({p[1]}) : ~Parseable(EndOf(i))

\* Two VI1 visits whose ends are in different time zones; the one listed
\* first, with the smaller end string, is the later instant and supplies
\* vi1_end.
MostRecentEndWitness ==
    /\ Ok
    /\ \E i, j \in At({"VI1"}) :
         /\ i < j
         /\ ParsedEnd(i) > ParsedEnd(j)
         /\ StrGreater(EndOf(j), EndOf(i))
         /\ result.vi1_end = EndOf(i)

\* A missing end listed after a malformed one: vi1_end is null.
MostRecentEndNullWitness ==
    /\ Ok
    /\ result.vi1_end = None
    /\ \E i \in At({"VI1"}) : EndOf(i) = Bad

\* C6  shipping_start is the start of the first SHIPPING visit in list order
\* whose start string is strictly greater than packing_end, and null when
\* there is none or packing_end is null, whatever the VI1 chain holds.
ShippingAfterPacking ==
    Ok => IF After("SHIPPING", result.packing_end) = {}
          THEN result.shipping_start = None
          ELSE result.shipping_start
                  = StartOf(SetMin(After("SHIPPING", result.packing_end)))

\* A SHIPPING visit that starts at packing_end is passed over; of the two
\* later ones the one listed first is reported although it starts later; no
\* VI1 visit exists.
ShippingAfterPackingWitness ==
    /\ Ok
    /\ At({"VI1"}) = {}
    /\ Truthy(result.shipping_start)
    /\ \E i, j, k \in At({"SHIPPING"}) :
         /\ StartOf(i) = result.packing_end
         /\ i < j /\ j < k
         /\ StartOf(j) = result.shipping_start
         /\ Truthy(StartOf(k))
         /\ StrGreater(StartOf(k), result.packing_end)
         /\ StrGreater(StartOf(j), StartOf(k))

\* The only SHIPPING visit starts before packing_end, and the VI1 chain is
\* populated: nothing is reported.
ShippingBeforePacking ==
    /\ Ok
    /\ Truthy(result.vi1_end)
    /\ Truthy(result.packing_end)
    /\ Cardinality(At({"SHIPPING"})) = 1
    /\ result.shipping_start = None

\* C7 as claimed: the winning visit of step 2, 4, 5 or 7 never has a null
\* start or a null end.
WinnersHaveStartAndEnd ==
    Ok =>
        /\ result.vi1_next_station # NoStation =>
              LET w == Candidate(result.vi1_next_station, result.vi1_end)
              IN  Truthy(StartOf(w)) /\ Truthy(EndOf(w))
        /\ result.bbd_assy_station # NoStation =>
              LET w == Candidate(result.bbd_assy_station, result.upgrade_end)
              IN  Truthy(StartOf(w)) /\ Truthy(EndOf(w))
        /\ result.fla_chiflash_station # NoStation =>
              LET w == Candidate(result.fla_chiflash_station, result.bbd_assy_end)
              IN  Truthy(StartOf(w)) /\ Truthy(EndOf(w))
        /\ Truthy(result.shipping_start) =>
              LET w == SetMin(After("SHIPPING", result.packing_end))
              IN  Truthy(StartOf(w)) /\ Truthy(EndOf(w))

\* C7 as amended: the winning visit of step 2, 4, 5 or 7 never has a null
\* start (its end may be null): a populated station comes with a populated
\* start that a visit of that station carries, and a visit with a null start
\* does not keep a later visit of its station from winning.
WinnersHaveStart ==
    Ok =>
        /\ result.vi1_next_station # NoStation =>
              /\ Truthy(result.vi1_next_start)
              /\ \E i \in At({result.vi1_next_station}) :
                    StartOf(i) = result.vi1_next_start
        /\ result.bbd_assy_station # NoStation =>
              /\ Truthy(result.bbd_assy_start)
              /\ \E i \in At({result.bbd_assy_station}) :
                    StartOf(i) = result.bbd_assy_start
        /\ result.fla_chiflash_station # NoStation =>
              /\ Truthy(result.fla_chiflash_start)
              /\ \E i \in At({result.fla_chiflash_station}) :
                    StartOf(i) = result.fla_chiflash_start
        /\ After("SHIPPING", result.packing_end) # {} =>
              Truthy(result.shipping_start)
        /\ (\E k \in 1..Len(Step2Stations) :
               After(Step2Stations[k], result.vi1_end) # {})
              => result.vi1_next_station # NoStation

\* A Disassembly visit with a null start is listed before the Disassembly
\* visit that wins step 2.
WinnersHaveStartWitness ==
    /\ Ok
    /\ result.vi1_next_station = "Disassembly"
    /\ \E i, j \in At({"Disassembly"}) :
         /\ i < j
         /\ ~Truthy(StartOf(i))
         /\ StartOf(j) = result.vi1_next_start

AllNull ==
    /\ result.st = "ok"
    /\ result.serial_number = sn
    /\ \A f \in TimeFields : result[f] = None
    /\ \A f \in StationFields : result[f] = NoStation

\* C8  Empty input is not an error: a call on a list without qualifying
\* visits, or whose only qualifying visits are RECEIVE visits, returns the
\* record with the serial number and eleven nulls.
EmptyInputAllNull ==
    (result.st # "none" /\ \A i \in Visits : StationOf(i) = "RECEIVE")
        => AllNull

\* The part of C8 about lists without any qualifying visit.
NoVisitsAllNull ==
    (result.st # "none" /\ Visits = {}) => AllNull

\* The claimed display value: the timestamp converted to UTC (a timestamp
\* without offset is Taiwan time), shifted by +4 hours.
ExpectedDisplay(ts) ==
    LET utc == ts.d * 24 + ts.h - (IF ts.tz = "Z" THEN 0 ELSE TaiwanOffset)
    IN  Raw((utc + DisplayOffset) \div 24, (utc + DisplayOffset) % 24)

\* C9  Display transform: every parseable timestamp of a written row is the
\* result's timestamp converted to UTC and shifted by +4 hours; an
\* unparseable one is written unchanged.
DisplayIsUtcPlusFour ==
    "vi1_end" \in DOMAIN row =>
        \A f \in TimeFields :
            /\ Parseable(result[f]) => row[f] = ExpectedDisplay(result[f])
            /\ result[f] = Bad => row[f] = Bad

\* C10  Earliest successor: a populated vi1_next_start, bbd_assy_start or
\* fla_chiflash_start is the smallest start of all visits of the step's
\* stations in the working set that start after the predecessor.
EarliestSuccessor ==
    Ok =>
        /\ Truthy(result.fla_chiflash_start) =>
              \A i \in After("FLA", result.bbd_assy_end)
                         \cup After("CHIFLASH", result.bbd_assy_end) :
                  ~StrGreater(result.fla_chiflash_start, StartOf(i))
        /\ Truthy(result.vi1_next_start) =>
              \A i \in After("Disassembly", result.vi1_end)
                         \cup After("UPGRADE", result.vi1_end) :
                  ~StrGreater(result.vi1_next_start, StartOf(i))
        /\ Truthy(result.bbd_assy_start) =>
              \A i \in After("BBD", result.upgrade_end)
                         \cup After("ASSY1", result.upgrade_end)
                         \cup After("Assembley", result.upgrade_end) :
                  ~StrGreater(result.bbd_assy_start, StartOf(i))

\* The FLA case of C10 alone.
EarliestFlaChiflash ==
    (Ok /\ Truthy(result.fla_chiflash_start)) =>
        \A i \in After("FLA", result.bbd_assy_end)
                   \cup After("CHIFLASH", result.bbd_assy_end) :
            ~StrGreater(result.fla_chiflash_start, StartOf(i))

\* C11  Whenever step 2 selects UPGRADE, the lookup of the UPGRADE visit
\* whose start equals vi1_next_start finds a visit, and upgrade_end is the end
\* of the visit that produced the step-2 candidate: the first UPGRADE visit in
\* list order with start > vi1_end, also when other UPGRADE visits share its
\* start.
UpgradeLookupFindsCandidate ==
    (Ok /\ result.vi1_next_station = "UPGRADE") =>
        /\ find_matching_upgrade(cycle_data(workstation_data(history_data)),
                                 result.vi1_next_start) # <<>>
        /\ Candidate("UPGRADE", result.vi1_end) # 0
        /\ StartOf(Candidate("UPGRADE", result.vi1_end)) = result.vi1_next_start
        /\ result.upgrade_end = EndOf(Candidate("UPGRADE", result.vi1_end))

\* Two UPGRADE visits with the start selected at step 2 and different ends,
\* after an UPGRADE visit listed first that is not the candidate: upgrade_end
\* is the end of the first of the two.
UpgradeLookupWitness ==
    /\ Ok
    /\ result.vi1_next_station = "UPGRADE"
    /\ \E i, j \in At({"UPGRADE"}) :
         /\ i < j
         /\ StartOf(i) = result.vi1_next_start
         /\ StartOf(j) = result.vi1_next_start
         /\ EndOf(i) # EndOf(j)
         /\ Truthy(EndOf(j))
         /\ result.upgrade_end = EndOf(i)

====
